---- MODULE Spec2Model ----
(***************************************************************************)
(* A model of backend/main.py of patent-intelligence: the /analyze         *)
(* pipeline (keyword extraction, live search with static fallback,         *)
(* relevance scoring, filters, sort, pagination, savings figure).          *)
(*                                                                         *)
(* Text is modelled as TLA+ strings over printable ASCII; Len, SubSeq and  *)
(* \o act on strings character by character.  A Python float relevance is  *)
(* modelled exactly as an integer number of ScoreUnit-ths (every score the *)
(* program computes is m/n with n <= 10, every stored literal has two      *)
(* decimals).  A value that may be None is a sequence of length 0 or 1.    *)
(***************************************************************************)
EXTENDS Integers, Sequences, FiniteSets, TLC

(* ------------------------------ bounds ------------------------------- *)

\* limit ranges over 1..MaxLimit, offset over 0..MaxOffset
MaxLimit == 3
MaxOffset == 4

\* the process's string-hash seed (PYTHONHASHSEED) ranges over 0..MaxSeed
MaxSeed == 1

(* --------------------------- text helpers ---------------------------- *)

\* The printable ASCII characters in code-point order: 32 .. 95 and 97 .. 126
\* (the grave accent, 96, cannot be written in a TLA+ string).
AsciiLow ==
  " !\"#$%&'()*+,-./0123456789:;<=>?@ABCDEFGHIJKLMNOPQRSTUVWXYZ[\\]^_"
AsciiHigh == "abcdefghijklmnopqrstuvwxyz{|}~"

Char(s, i) == SubSeq(s, i, i)

AsciiChars ==
  { Char(AsciiLow, i) : i \in 1..Len(AsciiLow) } \cup { Char(AsciiHigh, i) : i \in 1..Len(AsciiHigh) }

\* ord(c) for a printable ASCII character
Ord ==
  [ c \in AsciiChars |->
      IF \E i \in 1..Len(AsciiLow) : Char(AsciiLow, i) = c
      THEN 31 + (CHOOSE i \in 1..Len(AsciiLow) : Char(AsciiLow, i) = c)
      ELSE 96 + (CHOOSE i \in 1..Len(AsciiHigh) : Char(AsciiHigh, i) = c) ]

UpperChars == { c \in AsciiChars : Ord[c] >= 65 /\ Ord[c] <= 90 }
LowerChars == { c \in AsciiChars : Ord[c] >= 97 /\ Ord[c] <= 122 }
DigitChars == { c \in AsciiChars : Ord[c] >= 48 /\ Ord[c] <= 57 }

\* \w of the re module, restricted to ASCII
WordChars  == UpperChars \cup LowerChars \cup DigitChars \cup {"_"}

\* the characters str.strip() removes, restricted to ASCII
WhiteSpace == {" ", "\t", "\n", "\r"}

ToLower == [ c \in UpperChars |-> CHOOSE d \in LowerChars : Ord[d] = Ord[c] + 32 ]
ToUpper == [ c \in LowerChars |-> CHOOSE d \in UpperChars : Ord[d] = Ord[c] - 32 ]

\* str.lower()
RECURSIVE lower(_)
lower(s) ==
  IF Len(s) = 0 THEN ""
  ELSE IF Len(s) = 1 THEN (IF s \in UpperChars THEN ToLower[s] ELSE s)
  ELSE LET h == Len(s) \div 2
       IN  lower(SubSeq(s, 1, h)) \o lower(SubSeq(s, h + 1, Len(s)))

\* str.upper()
RECURSIVE upper(_)
upper(s) ==
  IF Len(s) = 0 THEN ""
  ELSE IF Len(s) = 1 THEN (IF s \in LowerChars THEN ToUpper[s] ELSE s)
  ELSE LET h == Len(s) \div 2
       IN  upper(SubSeq(s, 1, h)) \o upper(SubSeq(s, h + 1, Len(s)))

\* str.strip()
RECURSIVE strip(_)
strip(s) ==
  IF Len(s) = 0 THEN ""
  ELSE IF Char(s, 1) \in WhiteSpace THEN strip(SubSeq(s, 2, Len(s)))
  ELSE IF Char(s, Len(s)) \in WhiteSpace THEN strip(SubSeq(s, 1, Len(s) - 1))
  ELSE s

\* s.replace(" ", "")
RECURSIVE remove_spaces(_)
remove_spaces(s) ==
  IF Len(s) = 0 THEN ""
  ELSE IF Len(s) = 1 THEN (IF s = " " THEN "" ELSE s)
  ELSE LET h == Len(s) \div 2
       IN  remove_spaces(SubSeq(s, 1, h)) \o remove_spaces(SubSeq(s, h + 1, Len(s)))

\* s.startswith(p)
startswith(s, p) == Len(p) <= Len(s) /\ SubSeq(s, 1, Len(p)) = p

\* the Python test  kw in text
Contains(text, kw) ==
  \E i \in 1..(Len(text) - Len(kw) + 1) : SubSeq(text, i, i + Len(kw) - 1) = kw

\* s[:n]
Prefix(s, n) == IF Len(s) <= n THEN s ELSE SubSeq(s, 1, n)

\* a < b on Python strings: lexicographic by code point
StrLess(a, b) ==
  LET n == IF Len(a) < Len(b) THEN Len(a) ELSE Len(b)
      D == { i \in 1..n : Char(a, i) # Char(b, i) }
  IN  IF D = {} THEN Len(a) < Len(b)
      ELSE LET d == CHOOSE i \in D : \A k \in D : i <= k
           IN  Ord[Char(a, d)] < Ord[Char(b, d)]

(* ------------------------- extract_keywords -------------------------- *)

stop_words ==
  { "the", "a", "an", "and", "or", "but", "in", "on", "at", "to", "for", "of",
    "with", "by", "from", "as", "is", "was", "are", "be", "been", "being",
    "have", "has", "had", "do", "does", "did", "will", "would", "should",
    "could", "may", "might", "must", "can", "using", "used", "use", "system",
    "method", "apparatus" }

\* The last index of the maximal run of \w characters that starts at i.
RunEnd(s, i) ==
  CHOOSE j \in i..Len(s) :
    /\ \A k \in i..j : Char(s, k) \in WordChars
    /\ (j = Len(s) \/ Char(s, j + 1) \notin WordChars)

\* re.findall(r'\b[a-z]{3,}\b', s) from index i on: a match is a whole run of
\* \w characters (the two \b) made of at least three letters a-z
RECURSIVE findall(_, _)
findall(s, i) ==
  IF i > Len(s) THEN << >>
  ELSE IF Char(s, i) \notin WordChars THEN findall(s, i + 1)
  ELSE LET j   == RunEnd(s, i)
           run == SubSeq(s, i, j)
           hit == /\ j - i + 1 >= 3
                  /\ \A k \in i..j : Char(s, k) \in LowerChars
       IN  (IF hit THEN << run >> ELSE << >>) \o findall(s, j + 1)

\* hash(w) of a str under the process's hash seed; it fixes the iteration
\* order of a set of strings, which Python leaves unspecified
RECURSIVE StrHash(_, _, _)
StrHash(w, seed, h) ==
  IF Len(w) = 0 THEN h
  ELSE StrHash(SubSeq(w, 2, Len(w)), seed, (h * (31 + seed) + Ord[Char(w, 1)]) % 1009)

HashBefore(a, b, seed) ==
  LET ha == StrHash(a, seed, seed)
      hb == StrHash(b, seed, seed)
  IN  ha < hb \/ (ha = hb /\ StrLess(a, b))

\* list(S) for a set of strings: its elements in the iteration order the
\* seed gives
RECURSIVE SetToList(_, _)
SetToList(S, seed) ==
  IF S = {} THEN << >>
  ELSE LET m == CHOOSE x \in S : \A y \in S \ {x} : HashBefore(x, y, seed)
       IN  << m >> \o SetToList(S \ {m}, seed)

\* extract_keywords with a default keyword list for a text that gives none
extract_keywords_defaulting(description, seed) ==
  LET words    == findall(lower(description), 1)
      keywords == SelectSeq(words, LAMBDA w : w \notin stop_words)
      asList   == SetToList({ keywords[i] : i \in DOMAIN keywords }, seed)
  IN  IF asList = << >> THEN << "battery", "thermal", "cooling" >>
      ELSE SubSeq(asList, 1, IF Len(asList) < 10 THEN Len(asList) ELSE 10)

\* extract_keywords without the cut to ten
extract_keywords_uncut(description, seed) ==
  LET words    == findall(lower(description), 1)
      keywords == SelectSeq(words, LAMBDA w : w \notin stop_words)
  IN  SetToList({ keywords[i] : i \in DOMAIN keywords }, seed)

extract_keywords(description, seed) ==
  LET words    == findall(lower(description), 1)
      keywords == SelectSeq(words, LAMBDA w : w \notin stop_words)
      asList   == SetToList({ keywords[i] : i \in DOMAIN keywords }, seed)
  IN  SubSeq(asList, 1, IF Len(asList) < 10 THEN Len(asList) ELSE 10)

(* ------------------------ calculate_relevance ------------------------ *)

\* 1.0 as a relevance score; divisible by every keyword count 1..10 and by 100
ScoreUnit == 2520 * 100

\* calculate_relevance matching the keywords against the text as written
calculate_relevance_cased(patent, keywords) ==
  LET text    == patent.title \o " " \o patent.abstract
      matches == Cardinality({ i \in DOMAIN keywords : Contains(text, keywords[i]) })
      n       == IF Len(keywords) > 1 THEN Len(keywords) ELSE 1
      ratio   == (matches * ScoreUnit) \div n
  IN  IF ratio < ScoreUnit THEN ratio ELSE ScoreUnit

calculate_relevance(patent, keywords) ==
  LET text    == lower(patent.title \o " " \o patent.abstract)
      matches == Cardinality({ i \in DOMAIN keywords : Contains(text, keywords[i]) })
      n       == IF Len(keywords) > 1 THEN Len(keywords) ELSE 1
      ratio   == (matches * ScoreUnit) \div n
  IN  IF ratio < ScoreUnit THEN ratio ELSE ScoreUnit

get_fallback_patents ==
  <<
    [ patent_number |-> "US9105950B2",
      title |-> "Thermal Management of Battery Packs",
      abstract |-> "A battery thermal management system using liquid cooling channels integrated into battery pack housing to maintain optimal operating temperature range.",
      status |-> "Expired - Free to Use",
      url |-> "https://patents.google.com/patent/US9105950B2",
      relevance_score |-> 85 * (ScoreUnit \div 100),
      plain_summary |-> "Liquid cooling system for battery packs in electric vehicles",
      patent_date |-> "2015-08-11",
      year |-> <<2015>> ],
    [ patent_number |-> "US8993136B2",
      title |-> "Liquid Cooling System for Battery Pack",
      abstract |-> "Battery pack cooling system utilizing coolant circulation through cold plates in thermal contact with battery cells.",
      status |-> "Expired - Free to Use",
      url |-> "https://patents.google.com/patent/US8993136B2",
      relevance_score |-> 82 * (ScoreUnit \div 100),
      plain_summary |-> "Cold plate cooling for EV battery thermal management",
      patent_date |-> "2015-03-31",
      year |-> <<2015>> ],
    [ patent_number |-> "US20190067721A1",
      title |-> "Battery Thermal Management System Using Phase Change Material",
      abstract |-> "Integration of phase change materials (PCM) with battery cells to absorb excess heat during high-power operation.",
      status |-> "Active",
      url |-> "https://patents.google.com/patent/US20190067721A1",
      relevance_score |-> 78 * (ScoreUnit \div 100),
      plain_summary |-> "Uses phase change materials to regulate battery temperature",
      patent_date |-> "2019-02-28",
      year |-> <<2019>> ],
    [ patent_number |-> "US10320031B2",
      title |-> "Battery Pack with Integrated Cooling Plate",
      abstract |-> "Battery module design with integrated aluminum cooling plate for efficient heat dissipation in electric vehicle applications.",
      status |-> "Active",
      url |-> "https://patents.google.com/patent/US10320031B2",
      relevance_score |-> 80 * (ScoreUnit \div 100),
      plain_summary |-> "Integrated cooling plate design for EV battery modules",
      patent_date |-> "2019-06-11",
      year |-> <<2019>> ],
    [ patent_number |-> "US9728778B2",
      title |-> "Thermal Management System for Electric Vehicle Battery",
      abstract |-> "Comprehensive thermal management system combining active cooling, heating, and thermal insulation for battery longevity.",
      status |-> "Expired - Free to Use",
      url |-> "https://patents.google.com/patent/US9728778B2",
      relevance_score |-> 88 * (ScoreUnit \div 100),
      plain_summary |-> "Complete thermal management solution for EV batteries",
      patent_date |-> "2017-08-08",
      year |-> <<2017>> ],
    [ patent_number |-> "US10396391B2",
      title |-> "Heat Pipe Cooling for Battery Systems",
      abstract |-> "Application of heat pipe technology for passive thermal management in high-density battery packs.",
      status |-> "Active",
      url |-> "https://patents.google.com/patent/US10396391B2",
      relevance_score |-> 75 * (ScoreUnit \div 100),
      plain_summary |-> "Heat pipe technology for battery cooling",
      patent_date |-> "2019-08-27",
      year |-> <<2019>> ],
    [ patent_number |-> "US9083066B2",
      title |-> "Battery Cooling System with Refrigerant",
      abstract |-> "Direct refrigerant cooling system for battery packs using evaporative cooling principles.",
      status |-> "Expired - Free to Use",
      url |-> "https://patents.google.com/patent/US9083066B2",
      relevance_score |-> 72 * (ScoreUnit \div 100),
      plain_summary |-> "Refrigerant-based cooling for battery thermal control",
      patent_date |-> "2015-07-14",
      year |-> <<2015>> ],
    [ patent_number |-> "US10686219B2",
      title |-> "Immersion Cooling for Battery Cells",
      abstract |-> "Battery cells immersed in dielectric cooling fluid for enhanced thermal management and safety.",
      status |-> "Active",
      url |-> "https://patents.google.com/patent/US10686219B2",
      relevance_score |-> 70 * (ScoreUnit \div 100),
      plain_summary |-> "Immersion cooling technology for battery cells",
      patent_date |-> "2020-06-16",
      year |-> <<2020>> ],
    [ patent_number |-> "US9947926B2",
      title |-> "Thermoelectric Cooling for Battery Modules",
      abstract |-> "Thermoelectric devices integrated into battery modules for precise temperature control.",
      status |-> "Active",
      url |-> "https://patents.google.com/patent/US9947926B2",
      relevance_score |-> 68 * (ScoreUnit \div 100),
      plain_summary |-> "Thermoelectric cooling for precise battery temperature management",
      patent_date |-> "2018-04-17",
      year |-> <<2018>> ],
    [ patent_number |-> "US8974929B2",
      title |-> "Air Cooling System for Battery Pack",
      abstract |-> "Forced air cooling system with optimized airflow channels for battery thermal management.",
      status |-> "Expired - Free to Use",
      url |-> "https://patents.google.com/patent/US8974929B2",
      relevance_score |-> 65 * (ScoreUnit \div 100),
      plain_summary |-> "Air-based cooling system for battery packs",
      patent_date |-> "2015-03-10",
      year |-> <<2015>> ],
    [ patent_number |-> "US10461348B2",
      title |-> "Hybrid Cooling System for Electric Vehicle Batteries",
      abstract |-> "Combination of liquid and air cooling for optimized thermal management across operating conditions.",
      status |-> "Active",
      url |-> "https://patents.google.com/patent/US10461348B2",
      relevance_score |-> 83 * (ScoreUnit \div 100),
      plain_summary |-> "Hybrid liquid and air cooling for EV batteries",
      patent_date |-> "2019-10-29",
      year |-> <<2019>> ],
    [ patent_number |-> "US9236608B2",
      title |-> "Battery Thermal Interface Materials",
      abstract |-> "Advanced thermal interface materials for improved heat transfer between battery cells and cooling systems.",
      status |-> "Expired - Free to Use",
      url |-> "https://patents.google.com/patent/US9236608B2",
      relevance_score |-> 62 * (ScoreUnit \div 100),
      plain_summary |-> "Thermal interface materials for battery heat dissipation",
      patent_date |-> "2016-01-12",
      year |-> <<2016>> ],
    [ patent_number |-> "US10714724B2",
      title |-> "Smart Thermal Management with Predictive Control",
      abstract |-> "AI-driven thermal management system that predicts battery heating and preemptively adjusts cooling.",
      status |-> "Active",
      url |-> "https://patents.google.com/patent/US10714724B2",
      relevance_score |-> 77 * (ScoreUnit \div 100),
      plain_summary |-> "AI-based predictive thermal management for batteries",
      patent_date |-> "2020-07-14",
      year |-> <<2020>> ],
    [ patent_number |-> "US9166232B2",
      title |-> "Microchannel Cooling for Battery Systems",
      abstract |-> "Microchannel heat exchangers integrated into battery pack structure for high-efficiency cooling.",
      status |-> "Expired - Free to Use",
      url |-> "https://patents.google.com/patent/US9166232B2",
      relevance_score |-> 74 * (ScoreUnit \div 100),
      plain_summary |-> "Microchannel technology for efficient battery cooling",
      patent_date |-> "2015-10-20",
      year |-> <<2015>> ],
    [ patent_number |-> "US10593991B2",
      title |-> "Graphene-Enhanced Thermal Conductors for Batteries",
      abstract |-> "Use of graphene-based materials to enhance thermal conductivity in battery thermal management systems.",
      status |-> "Active",
      url |-> "https://patents.google.com/patent/US10593991B2",
      relevance_score |-> 69 * (ScoreUnit \div 100),
      plain_summary |-> "Graphene materials for improved battery heat transfer",
      patent_date |-> "2020-03-17",
      year |-> <<2020>> ],
    [ patent_number |-> "US9318772B2",
      title |-> "Battery Pack Thermal Monitoring System",
      abstract |-> "Distributed temperature sensing network for real-time thermal monitoring of battery cells.",
      status |-> "Expired - Free to Use",
      url |-> "https://patents.google.com/patent/US9318772B2",
      relevance_score |-> 66 * (ScoreUnit \div 100),
      plain_summary |-> "Temperature monitoring system for battery safety",
      patent_date |-> "2016-04-19",
      year |-> <<2016>> ],
    [ patent_number |-> "US10840535B2",
      title |-> "Modular Battery Cooling Architecture",
      abstract |-> "Scalable modular cooling system design for flexible battery pack configurations.",
      status |-> "Active",
      url |-> "https://patents.google.com/patent/US10840535B2",
      relevance_score |-> 71 * (ScoreUnit \div 100),
      plain_summary |-> "Modular cooling design for scalable battery systems",
      patent_date |-> "2020-11-17",
      year |-> <<2020>> ],
    [ patent_number |-> "US9263721B2",
      title |-> "Thermal Runaway Prevention System",
      abstract |-> "Active cooling system designed to prevent thermal runaway propagation in battery packs.",
      status |-> "Expired - Free to Use",
      url |-> "https://patents.google.com/patent/US9263721B2",
      relevance_score |-> 79 * (ScoreUnit \div 100),
      plain_summary |-> "Safety system to prevent battery thermal runaway",
      patent_date |-> "2016-02-16",
      year |-> <<2016>> ],
    [ patent_number |-> "US10566616B2",
      title |-> "Lightweight Cooling Plate for EV Batteries",
      abstract |-> "Optimized lightweight aluminum cooling plate design for weight-sensitive electric vehicle applications.",
      status |-> "Active",
      url |-> "https://patents.google.com/patent/US10566616B2",
      relevance_score |-> 76 * (ScoreUnit \div 100),
      plain_summary |-> "Lightweight cooling solution for electric vehicles",
      patent_date |-> "2020-02-18",
      year |-> <<2020>> ]
  >>

(* ------------------------ extract_jurisdiction ----------------------- *)

extract_jurisdiction(p) ==
  LET num == upper(p.patent_number)
  IN  IF startswith(num, "US") THEN "US"
      ELSE IF startswith(num, "EP") THEN "EP"
      ELSE IF startswith(num, "WO") THEN "WO"
      ELSE IF startswith(num, "CN") THEN "CN"
      ELSE IF startswith(num, "JP") THEN "JP"
      ELSE "US"

(* ------------------------- fetch_live_patents ------------------------ *)

\* the value of a non-empty string of decimal digits
RECURSIVE DigitsValue(_)
DigitsValue(s) ==
  IF Len(s) = 0 THEN 0
  ELSE 10 * DigitsValue(SubSeq(s, 1, Len(s) - 1)) + (Ord[Char(s, Len(s))] - 48)

\* int(s) inside try/except: << n >>, or << >> where int raises ValueError.
\* (The underscore digit separators int also accepts are not modelled.)
parse_int(s) ==
  LET t      == strip(s)
      signed == Len(t) > 0 /\ Char(t, 1) \in {"+", "-"}
      digits == IF signed THEN SubSeq(t, 2, Len(t)) ELSE t
  IN  IF Len(digits) > 0 /\ \A i \in 1..Len(digits) : Char(digits, i) \in DigitChars
      THEN << (IF signed /\ Char(t, 1) = "-" THEN 0 - 1 ELSE 1) * DigitsValue(digits) >>
      ELSE << >>

\* One hit of the provider's reply mapped to the record schema.  A missing or
\* null field of the hit is the empty string (the code reads r.get(k) or "").
map_hit(r, kws, current_year) ==
  LET pn        == remove_spaces(r.publication_number)
      juris     == upper(r.jurisdiction)
      title     == strip(r.title)
      abstract  == strip(r.abstract)
      pub_date  == r.publication_date
      year      == IF pub_date # "" THEN parse_int(Prefix(pub_date, 4)) ELSE << >>
      lens_id   == r.lens_id
      url_link  == IF pn # "" THEN "https://patents.google.com/patent/" \o pn
                   ELSE IF lens_id # "" THEN "https://www.lens.org/lens/patent/" \o lens_id
                   ELSE "https://www.lens.org/"
      status    == IF year # << >> /\ year[1] # 0 /\ current_year - year[1] >= 20
                   THEN "Expired - Free to Use"
                   ELSE "Active"
  IN  [ patent_number   |-> IF pn # "" THEN pn
                            ELSE IF lens_id # "" THEN juris \o lens_id
                            ELSE "Unknown",
        title           |-> IF title # "" THEN title ELSE "Untitled patent",
        abstract        |-> IF abstract # "" THEN Prefix(abstract, 900)
                            ELSE "No abstract available.",
        status          |-> status,
        url             |-> url_link,
        relevance_score |-> calculate_relevance([title |-> title, abstract |-> abstract], kws),
        plain_summary   |-> IF title # "" THEN "Patent covering " \o lower(title)
                            ELSE "Patent result",
        patent_date     |-> pub_date,
        year            |-> year ]

\* The list fetch_live_patents returns for the provider's reply to its one
\* POST.  reply.raises: the request or the JSON decoding raised;
\* reply.recs_is_list: the "data"/"results" member is a list;
\* a hit with well_formed = FALSE makes the mapping loop raise.
fetch_live_patents(query, reply, seed, current_year) ==
  IF reply.raises THEN << >>
  ELSE IF reply.status_code # 200 THEN << >>
  ELSE IF ~reply.recs_is_list THEN << >>
  ELSE IF \E i \in DOMAIN reply.recs : ~reply.recs[i].well_formed THEN << >>
  ELSE LET kws == extract_keywords(query, seed)
       IN  [ i \in DOMAIN reply.recs |-> map_hit(reply.recs[i], kws, current_year) ]

(* ------------------------------ analyze ------------------------------ *)

\* load_source keeping the scores the fallback list is written with
load_source_literal(description, reply, seed, current_year) ==
  LET live == fetch_live_patents(description, reply, seed, current_year)
  IN  IF live = << >> THEN get_fallback_patents ELSE live

\* The handler's local  source  after the live attempt and the fallback.
load_source(description, reply, seed, current_year) ==
  LET live == fetch_live_patents(description, reply, seed, current_year)
  IN  IF live = << >>
      THEN LET keywords == extract_keywords(description, seed)
               fallback == get_fallback_patents
           IN  [ i \in DOMAIN fallback |->
                   [ fallback[i] EXCEPT
                       !.relevance_score = calculate_relevance(fallback[i], keywords) ] ]
      ELSE live

enrich(source) ==
  [ i \in DOMAIN source |->
      [ rec |-> source[i],
        _jurisdiction |-> extract_jurisdiction(source[i]),
        _year |-> source[i].year ] ]

\* status_filter without the branch for "active"
status_filter_expired_only(pats, filter) ==
  IF filter = "expired"
  THEN SelectSeq(pats, LAMBDA p : Contains(p.rec.status, "Expired"))
  ELSE pats

status_filter(pats, filter) ==
  IF filter = "expired"
  THEN SelectSeq(pats, LAMBDA p : Contains(p.rec.status, "Expired"))
  ELSE IF filter = "active"
  THEN SelectSeq(pats, LAMBDA p : Contains(p.rec.status, "Active"))
  ELSE pats

jurisdiction_filter(pats, jurisdiction) ==
  IF jurisdiction # ""
  THEN LET j == upper(strip(jurisdiction))
       IN  SelectSeq(pats, LAMBDA p : p._jurisdiction = j)
  ELSE pats

\* min_year_filter keeping the records whose year is unknown
min_year_filter_keeping_unknown(pats, min_year) ==
  IF min_year > 0
  THEN SelectSeq(pats, LAMBDA p : p._year = << >> \/ p._year[1] >= min_year)
  ELSE pats

min_year_filter(pats, min_year) ==
  IF min_year > 0
  THEN SelectSeq(pats, LAMBDA p : p._year # << >> /\ p._year[1] >= min_year)
  ELSE pats

min_relevance_filter(pats, min_relevance) ==
  SelectSeq(pats, LAMBDA p : p.rec.relevance_score >= min_relevance)

apply_filters(enriched, filter, jurisdiction, min_year, min_relevance) ==
  min_relevance_filter(
    min_year_filter(
      jurisdiction_filter(status_filter(enriched, filter), jurisdiction),
      min_year),
    min_relevance)

\* the key a record sorts by: its lower-cased title or its relevance score
with_key(pats, by_title) ==
  [ i \in DOMAIN pats |->
      [ item |-> pats[i],
        key  |-> IF by_title THEN lower(pats[i].rec.title) ELSE pats[i].rec.relevance_score ] ]

without_key(keyed) == [ i \in DOMAIN keyed |-> keyed[i].item ]

\* a goes strictly before b in the order the sort asks for
key_before(a, b, by_title, reverse) ==
  IF by_title
  THEN (IF reverse THEN StrLess(b.key, a.key) ELSE StrLess(a.key, b.key))
  ELSE (IF reverse THEN a.key > b.key ELSE a.key < b.key)

\* list.sort(key=..., reverse=...): a stable sort.  An element goes after
\* every element that sorts before it and after the earlier elements of equal
\* key (reverse=True keeps that order of equal keys too).
list_sort(seq, by_title, reverse) ==
  LET n   == Len(seq)
      pos == [ i \in 1..n |->
                 1 + Cardinality({ j \in 1..n : key_before(seq[j], seq[i], by_title, reverse) })
                   + Cardinality({ j \in 1..(i - 1) :
                                     /\ ~key_before(seq[j], seq[i], by_title, reverse)
                                     /\ ~key_before(seq[i], seq[j], by_title, reverse) }) ]
  IN  [ k \in 1..n |-> seq[CHOOSE i \in 1..n : pos[i] = k] ]

Reversed(seq) == [ i \in 1..Len(seq) |-> seq[Len(seq) + 1 - i] ]

\* sort_patents with reverse=True done as the ascending sort turned round
sort_patents_turned(pats, sort) ==
  IF sort = "relevance_desc"
  THEN Reversed(without_key(list_sort(with_key(pats, FALSE), FALSE, FALSE)))
  ELSE IF sort = "relevance_asc"
  THEN without_key(list_sort(with_key(pats, FALSE), FALSE, FALSE))
  ELSE IF sort = "title_asc"
  THEN without_key(list_sort(with_key(pats, TRUE), TRUE, FALSE))
  ELSE IF sort = "title_desc"
  THEN Reversed(without_key(list_sort(with_key(pats, TRUE), TRUE, FALSE)))
  ELSE pats

sort_patents(pats, sort) ==
  IF sort = "relevance_desc"
  THEN without_key(list_sort(with_key(pats, FALSE), FALSE, TRUE))
  ELSE IF sort = "relevance_asc"
  THEN without_key(list_sort(with_key(pats, FALSE), FALSE, FALSE))
  ELSE IF sort = "title_asc"
  THEN without_key(list_sort(with_key(pats, TRUE), TRUE, FALSE))
  ELSE IF sort = "title_desc"
  THEN without_key(list_sort(with_key(pats, TRUE), TRUE, TRUE))
  ELSE pats

\* slice starting one record late
slice_late(pats, offset, limit) ==
  LET hi == IF offset + limit < Len(pats) THEN offset + limit ELSE Len(pats)
  IN  SubSeq(pats, offset + 2, hi)

\* pats[offset : offset + limit]
slice(pats, offset, limit) ==
  LET hi == IF offset + limit < Len(pats) THEN offset + limit ELSE Len(pats)
  IN  SubSeq(pats, offset + 1, hi)

\* the per-patent figure of the savings estimate
SavingsPerPatent == 25000

\* str(n) for n >= 0
RECURSIVE int_to_str(_)
int_to_str(n) ==
  IF n < 10 THEN Char("0123456789", n + 1)
  ELSE int_to_str(n \div 10) \o Char("0123456789", (n % 10) + 1)

\* format(n, ",") for n >= 0
RECURSIVE format_thousands(_)
format_thousands(n) ==
  IF n < 1000 THEN int_to_str(n)
  ELSE LET r == n % 1000
           pad == IF r < 10 THEN "00" ELSE IF r < 100 THEN "0" ELSE ""
       IN  format_thousands(n \div 1000) \o "," \o pad \o int_to_str(r)

strip_helpers(p) ==
  [ patent_number   |-> p.rec.patent_number,
    title           |-> p.rec.title,
    abstract        |-> p.rec.abstract,
    status          |-> p.rec.status,
    url             |-> p.rec.url,
    relevance_score |-> p.rec.relevance_score,
    plain_summary   |-> p.rec.plain_summary ]

applied_filters(req) ==
  [ status        |-> req.filter,
    min_relevance |-> req.min_relevance,
    sort          |-> req.sort,
    min_year      |-> req.min_year,
    jurisdiction  |-> IF req.jurisdiction # "" THEN upper(req.jurisdiction) ELSE "" ]

\* expired_count counting every record of the list
expired_count_all(pats) == Len(pats)

\* sum(1 for p in pats if "Expired" in p["status"])
expired_count(pats) ==
  Cardinality({ i \in DOMAIN pats : Contains(pats[i].rec.status, "Expired") })

\* next_offset offering a page that starts at total
next_offset_inclusive(offset, limit, total) ==
  IF offset + limit <= total THEN << offset + limit >> ELSE << >>

\* offset + limit if offset + limit < total else None
next_offset(offset, limit, total) ==
  IF offset + limit < total THEN << offset + limit >> ELSE << >>

\* offset - limit if offset >= limit else None
prev_offset(offset, limit) ==
  IF offset >= limit THEN << offset - limit >> ELSE << >>

\* The envelope analyze returns for the filtered and sorted list pats.
envelope(req, key_concepts, pats) ==
  [ project_description |-> req.description,
    key_concepts        |-> key_concepts,
    total_patents_found |-> Len(pats),
    estimated_savings   |-> "£" \o format_thousands(expired_count(pats) * SavingsPerPatent),
    patents             |-> LET paged == slice(pats, req.offset, req.limit)
                            IN  [ i \in DOMAIN paged |-> strip_helpers(paged[i]) ],
    pagination          |-> [ limit |-> req.limit, offset |-> req.offset,
                              next_offset |-> next_offset(req.offset, req.limit, Len(pats)),
                              prev_offset |-> prev_offset(req.offset, req.limit),
                              total |-> Len(pats) ],
    applied_filters     |-> applied_filters(req) ]

\* The envelope of the branch taken when source is still empty.
empty_envelope(req, key_concepts) ==
  [ project_description |-> req.description,
    key_concepts        |-> key_concepts,
    total_patents_found |-> 0,
    estimated_savings   |-> "£0",
    patents             |-> << >>,
    pagination          |-> [ limit |-> req.limit, offset |-> req.offset,
                              next_offset |-> << >>, prev_offset |-> << >>, total |-> 0 ],
    applied_filters     |-> applied_filters(req) ]

(* ------------------------------ inputs ------------------------------- *)

Descriptions ==
  { "",
    "the and of",
    "Battery thermal cooling system",
    "patent cooling",
    "EV x1y ab battery2 cool, Heat-Pipe_z COOL cool",
    "Liquid COOLING plate, heat-pipe & battery pack design",
    "Battery thermal cooling liquid plate pack heat pipe phase change material GRAPHENE" }

RECURSIVE Repeat(_, _)
Repeat(s, n) == IF n = 0 THEN "" ELSE s \o Repeat(s, n - 1)

\* an abstract of more than 900 characters whose last word lies beyond them
LongAbstract == Repeat("thermal management of cells ", 33) \o "graphene"

Hit(pub, juris, title, abstract, date, lens) ==
  [ well_formed |-> TRUE, publication_number |-> pub, jurisdiction |-> juris,
    title |-> title, abstract |-> abstract, publication_date |-> date, lens_id |-> lens ]

HitPlate    == Hit("EP 1234567 A1", "EP", "  Battery Cooling Plate ",
                   "Liquid cooling of battery cells.", "2001-06-05", "001-aaa")
HitUntitled == Hit("", "jp", "", "", "", "002-bbb")
HitLong     == Hit("WO2021000001A1", "WO", "Thermal Patent", LongAbstract, "2021", "")
HitPackCn   == Hit("cn105000000a", "CN", "battery pack", "A pack of cells with a heat pipe.",
                   "n/a", "004-ddd")
HitPackUs   == Hit("US7000000B2", "US", "Battery Pack", "Cooling plate for a battery pack.",
                   "2006-03-07", "005-eee")
HitBare     == Hit("", "", " ", "thermal battery", "0000-01-01", "")
HitBad      == [ HitPlate EXCEPT !.well_formed = FALSE ]

Reply(raises, code, is_list, recs) ==
  [ raises |-> raises, status_code |-> code, recs_is_list |-> is_list, recs |-> recs ]

LiveReplies ==
  { Reply(FALSE, 200, TRUE, << HitPlate, HitUntitled >>),
    Reply(FALSE, 200, TRUE, << HitPackCn, HitLong, HitPackUs, HitUntitled, HitPlate, HitBare >>),
    Reply(FALSE, 200, TRUE, << HitPackUs, HitPackCn >>) }

FailedReplies ==
  { Reply(TRUE, 0, FALSE, << >>),
    Reply(FALSE, 503, TRUE, << HitPlate >>),
    Reply(FALSE, 200, FALSE, << >>),
    Reply(FALSE, 200, TRUE, << >>),
    Reply(FALSE, 200, TRUE, << HitPlate, HitBad >>) }

Replies == LiveReplies \cup FailedReplies

\* datetime.now().year at the time of the request
CurrentYears == { 2026, 2041 }

Filters == { "all", "active", "expired", "pending" }
Sorts == { "relevance_desc", "relevance_asc", "title_asc", "title_desc", "newest" }
Limits == 1..MaxLimit
Offsets == 0..MaxOffset
MinRelevances == { 0, ScoreUnit \div 2, ScoreUnit }
MinYears == { 0, 2016, 2020 }
Jurisdictions == { "", "EP", " us", "jp " }
HashSeeds == 0..MaxSeed

(* ------------------------------- state ------------------------------- *)

VARIABLES
  hashSeed,   \* the process's string-hash seed, fixed at start
  phase,      \* "pending": the request is to be handled; "answered": it was
  request,    \* the /analyze request, with the provider's reply to its search
  source,     \* the handler's local  source  when it answered
  lens_posts, \* the POSTs the handler sent to the provider for that request
  response,   \* the envelope the handler returned
  pdf,        \* the /export-pdf request: its payload and the document built for it
  calls,      \* the /analyze calls in flight together, each with its locals
  heap        \* the lists those calls built, by reference

vars == << hashSeed, phase, request, source, lens_posts, response, pdf, calls, heap >>

\* The requests whose parameters lie in the given sets.
RequestsOver(Ds, Rs, Ns, Fs, Js, MYs, MRs, Ss, Ls, Os) ==
  [ description : Ds, reply : Rs, current_year : Ns, filter : Fs, jurisdiction : Js,
    min_year : MYs, min_relevance : MRs, sort : Ss, limit : Ls, offset : Os ]

\* What the handler returned before it has run: nothing.
NoResponse ==
  [ project_description |-> "", key_concepts |-> << >>, total_patents_found |-> 0,
    estimated_savings |-> "", patents |-> << >>,
    pagination |-> [ limit |-> 0, offset |-> 0, next_offset |-> << >>,
                     prev_offset |-> << >>, total |-> 0 ],
    applied_filters |-> [ status |-> "", min_relevance |-> 0, sort |-> "",
                          min_year |-> 0, jurisdiction |-> "" ] ]

\* No export was asked for.
NoExport == [ phase |-> "none", payload |-> << >>, story |-> << >> ]

\* A process with one request to handle, drawn from Requests.
InitOver(Requests) ==
  /\ hashSeed \in HashSeeds
  /\ phase = "pending"
  /\ request \in Requests
  /\ source = << >>
  /\ lens_posts = 0
  /\ response = NoResponse
  /\ pdf = NoExport
  /\ calls = << >>
  /\ heap = << >>

\* POST /analyze: the handler runs to completion (it awaits nothing).  Each
\* local of the handler is bound once, as the element of a singleton set.
Analyze ==
  /\ phase = "pending"
  /\ \E src \in { load_source(request.description, request.reply, hashSeed,
                                request.current_year) } :
     \E key_concepts \in { extract_keywords(request.description, hashSeed) } :
     \E enriched \in { enrich(src) } :
     \E filtered \in { apply_filters(enriched, request.filter, request.jurisdiction,
                                     request.min_year, request.min_relevance) } :
     \E pats \in { sort_patents(filtered, request.sort) } :
       /\ source' = src
       /\ lens_posts' = 1
       /\ response' = IF src = << >> THEN empty_envelope(request, key_concepts)
                      ELSE envelope(request, key_concepts, pats)
  /\ phase' = "answered"
  /\ UNCHANGED << hashSeed, request, pdf, calls, heap >>

Next == Analyze

\* the replies used where the request varies something else
ReplyFailed == Reply(TRUE, 0, FALSE, << >>)
ReplySix    == Reply(FALSE, 200, TRUE,
                     << HitPackCn, HitLong, HitPackUs, HitUntitled, HitPlate, HitBare >>)
ReplyPacks  == Reply(FALSE, 200, TRUE, << HitPackUs, HitPackCn >>)

\* requests that vary the filters
FilterRequests ==
  RequestsOver({ "Battery thermal cooling system", "patent cooling" },
               { ReplyFailed, ReplySix }, { 2026 },
               Filters, Jurisdictions, MinYears, MinRelevances,
               { "relevance_desc" }, { 1, MaxLimit }, { 0, MaxOffset })

\* requests that vary the pagination window
PageRequests ==
  RequestsOver({ "Battery thermal cooling system" },
               { ReplyFailed, ReplySix, ReplyPacks }, { 2026 },
               { "all", "expired" }, { "" }, { 0, 2020 }, { 0, ScoreUnit \div 2 },
               { "relevance_desc" }, Limits, Offsets)

\* requests that vary the sort key
SortRequests ==
  RequestsOver({ "", "Battery thermal cooling system", "patent cooling" },
               { ReplyFailed, ReplySix, ReplyPacks }, { 2026 },
               { "all", "active" }, { "" }, { 0 }, { 0, ScoreUnit \div 2 },
               Sorts, { MaxLimit, 19 }, { 0, MaxOffset })

\* requests that vary the description and the provider's reply
ScoreRequests ==
  RequestsOver(Descriptions, Replies, CurrentYears,
               { "all" }, { "" }, { 0 }, { 0 },
               { "relevance_desc" }, { MaxLimit, 19 }, { 0 })

Init == InitOver(FilterRequests)
Spec == Init /\ [][Next]_vars

InitPage == InitOver(PageRequests)
SpecPage == InitPage /\ [][Next]_vars

InitSort == InitOver(SortRequests)
SpecSort == InitSort /\ [][Next]_vars

InitScore == InitOver(ScoreRequests)
SpecScore == InitScore /\ [][Next]_vars

(* ----------------------------- build_pdf ----------------------------- *)

\* the flowables build_pdf puts in its story
Paragraph(text, style) == [ flowable |-> "Paragraph", text |-> text, style |-> style ]
Spacer(height) == [ flowable |-> "Spacer", height |-> height ]
Table(data) == [ flowable |-> "Table", data |-> data ]

\* sep.join(items)
RECURSIVE join(_, _)
join(items, sep) ==
  IF items = << >> THEN ""
  ELSE IF Len(items) = 1 THEN items[1]
  ELSE items[1] \o sep \o join(Tail(items), sep)

\* str.title(): a letter that follows a letter is lower-cased, any other
\* letter is upper-cased
title_case(s) ==
  LET Letter(c) == c \in UpperChars \union LowerChars
      pick[i \in 1..Len(s)] ==
        IF i > 1 /\ Letter(Char(s, i - 1)) THEN lower(Char(s, i)) ELSE upper(Char(s, i))
      RECURSIVE cat(_)
      cat(i) == IF i > Len(s) THEN "" ELSE pick[i] \o cat(i + 1)
  IN  cat(1)

\* int(round(score * 100)): round to the nearest integer, a half to the even one
rel_percent(score) ==
  LET x == score * 100
      q == x \div ScoreUnit
      r == x % ScoreUnit
  IN  IF 2 * r < ScoreUnit THEN q
      ELSE IF 2 * r > ScoreUnit THEN q + 1
      ELSE IF q % 2 = 0 THEN q ELSE q + 1

\* a row of the summary table
summary_row(p) ==
  << p.patent_number, Prefix(p.title, 70), p.status,
     int_to_str(rel_percent(p.relevance_score)) \o "%" >>

\* the flowables of one record's detail block
detail_block(p) ==
  << Paragraph("<b>" \o p.patent_number \o "</b>", "Heading3"),
     Paragraph("<b>Title:</b> " \o p.title, "BodyText"),
     Paragraph("<b>Status:</b> " \o p.status \o " | <b>Relevance:</b> "
                 \o int_to_str(rel_percent(p.relevance_score)) \o "%", "BodyText"),
     Spacer(4) >>
  \o (IF p.plain_summary # ""
      THEN << Paragraph("<b>Plain English Summary:</b> " \o p.plain_summary, "BodyText"),
              Spacer(4) >>
      ELSE << >>)
  \o (IF p.abstract # ""
      THEN << Paragraph("<b>Technical Abstract:</b> " \o p.abstract, "BodyText"), Spacer(4) >>
      ELSE << >>)
  \o (IF p.url # ""
      THEN << Paragraph("<b>Link:</b> <link href='" \o p.url \o "' color='blue'>"
                          \o p.url \o "</link>", "BodyText") >>
      ELSE << >>)
  \o << Spacer(12) >>

RECURSIVE detail_blocks(_)
detail_blocks(patents) ==
  IF patents = << >> THEN << >>
  ELSE detail_block(Head(patents)) \o detail_blocks(Tail(patents))

\* build_pdf that prints the notice after the records too
build_pdf_always_notice(payload) ==
  << Paragraph("Patent Intelligence Report", "Title"), Spacer(12),
     Paragraph("<b>Project Description</b>", "Heading2"),
     Paragraph(IF payload.project_description # "" THEN payload.project_description ELSE "-",
               "BodyText"),
     Spacer(8),
     Paragraph("<b>Key Concepts</b>", "Heading2"),
     Paragraph(join(payload.key_concepts, ", "), "BodyText"),
     Spacer(8),
     Paragraph("<b>Patent Status Filter</b>", "Heading2"),
     Paragraph(title_case(IF payload.filter # "" THEN payload.filter ELSE "all"), "BodyText"),
     Spacer(8),
     Paragraph("<b>Estimated R&D Savings</b>", "Heading2"),
     Paragraph(IF payload.estimated_savings # "" THEN payload.estimated_savings ELSE "£0",
               "BodyText"),
     Spacer(12) >>
  \o (IF payload.patents # << >>
      THEN << Paragraph("<b>Patents Summary</b>", "Heading2"),
              Table(<< << "Patent Number", "Title", "Status", "Relevance" >> >>
                      \o [ i \in DOMAIN payload.patents |-> summary_row(payload.patents[i]) ]),
              Spacer(14),
              Paragraph("<b>Detailed Patent Information</b>", "Heading2"),
              Spacer(8) >>
           \o detail_blocks(payload.patents)
      ELSE << >>)
  \o << Paragraph("No patents found for this query.", "BodyText") >>

\* The story build_pdf hands to doc.build, which lays it out in this order.
build_pdf(payload) ==
  << Paragraph("Patent Intelligence Report", "Title"), Spacer(12),
     Paragraph("<b>Project Description</b>", "Heading2"),
     Paragraph(IF payload.project_description # "" THEN payload.project_description ELSE "-",
               "BodyText"),
     Spacer(8),
     Paragraph("<b>Key Concepts</b>", "Heading2"),
     Paragraph(join(payload.key_concepts, ", "), "BodyText"),
     Spacer(8),
     Paragraph("<b>Patent Status Filter</b>", "Heading2"),
     Paragraph(title_case(IF payload.filter # "" THEN payload.filter ELSE "all"), "BodyText"),
     Spacer(8),
     Paragraph("<b>Estimated R&D Savings</b>", "Heading2"),
     Paragraph(IF payload.estimated_savings # "" THEN payload.estimated_savings ELSE "£0",
               "BodyText"),
     Spacer(12) >>
  \o (IF payload.patents # << >>
      THEN << Paragraph("<b>Patents Summary</b>", "Heading2"),
              Table(<< << "Patent Number", "Title", "Status", "Relevance" >> >>
                      \o [ i \in DOMAIN payload.patents |-> summary_row(payload.patents[i]) ]),
              Spacer(14),
              Paragraph("<b>Detailed Patent Information</b>", "Heading2"),
              Spacer(8) >>
           \o detail_blocks(payload.patents)
      ELSE << Paragraph("No patents found for this query.", "BodyText") >>)

(* ---------------------------- export_pdf ----------------------------- *)

\* records as a client sends them back for export
ExportPlain ==
  [ patent_number |-> "US9105950B2", title |-> "Thermal Management of Battery Packs",
    abstract |-> "A battery thermal management system using liquid cooling channels.",
    status |-> "Expired - Free to Use",
    url |-> "https://patents.google.com/patent/US9105950B2",
    relevance_score |-> (2 * ScoreUnit) \div 3,
    plain_summary |-> "Liquid cooling system for battery packs in electric vehicles" ]

ExportLongTitle ==
  [ patent_number |-> "EP1234567A1",
    title |-> Repeat("Battery Cooling Plate ", 4),
    abstract |-> "", status |-> "Active", url |-> "",
    relevance_score |-> ScoreUnit \div 8, plain_summary |-> "" ]

ExportBare ==
  [ patent_number |-> "Unknown", title |-> "Untitled patent",
    abstract |-> "No abstract available.", status |-> "Active",
    url |-> "https://www.lens.org/",
    relevance_score |-> (3 * ScoreUnit) \div 8, plain_summary |-> "Patent result" ]

ExportPatentLists ==
  { << >>, << ExportPlain >>, << ExportLongTitle, ExportPlain >>,
    << ExportBare, ExportLongTitle, ExportPlain >>, << ExportPlain, ExportPlain >> }

\* the bodies of POST /export-pdf
ExportPayloads ==
  [ project_description : { "", "Battery cooling" },
    key_concepts : { << >>, << "battery" >>, << "battery", "cooling", "plate" >> },
    estimated_savings : { "", "£50,000" },
    patents : ExportPatentLists,
    filter : { "", "all", "expired", "aCTIVE only" } ]

\* no /analyze request is handled
NoRequest ==
  [ description |-> "", reply |-> ReplyFailed, current_year |-> 2026, filter |-> "all",
    jurisdiction |-> "", min_year |-> 0, min_relevance |-> 0, sort |-> "relevance_desc",
    limit |-> 19, offset |-> 0 ]

\* A process with one export to build, and no /analyze request.
InitExport ==
  /\ hashSeed = 0
  /\ phase = "idle"
  /\ request = NoRequest
  /\ source = << >>
  /\ lens_posts = 0
  /\ response = NoResponse
  /\ pdf \in [ phase : { "pending" }, payload : ExportPayloads, story : { << >> } ]
  /\ calls = << >>
  /\ heap = << >>

\* POST /export-pdf: the handler builds the document and returns it.
ExportPdf ==
  /\ pdf.phase = "pending"
  /\ pdf' = [ pdf EXCEPT !.phase = "sent", !.story = build_pdf(pdf.payload) ]
  /\ UNCHANGED << hashSeed, phase, request, source, lens_posts, response, calls, heap >>

NextExport == ExportPdf

SpecExport == InitExport /\ [][NextExport]_vars

(* ------------------- /analyze calls in flight together ---------------- *)

\* the number of calls in flight together
MaxCalls == 2

\* get_fallback_patents shared: one list built once, handed to every caller
new_list_shared(h) == 1

\* The list literal of get_fallback_patents is evaluated at each call: the
\* reference of the list it returns is one no earlier list has.
new_list(h) == Len(h) + 1

\* the request of the c-th call: each call has a description of its own, and
\* the provider fails them all
CallRequest(c) ==
  [ NoRequest EXCEPT
      !.description = IF c % 3 = 1 THEN "Battery thermal cooling system"
                      ELSE IF c % 3 = 2 THEN "patent cooling"
                      ELSE "Liquid COOLING plate, heat-pipe & battery pack design",
      !.filter = IF c % 2 = 1 THEN "all" ELSE "expired",
      !.sort = IF c % 2 = 1 THEN "relevance_desc" ELSE "relevance_asc",
      !.min_relevance = IF c % 3 = 0 THEN ScoreUnit \div 2 ELSE 0,
      !.limit = IF c % 2 = 1 THEN 19 ELSE 5 ]

\* A process that has accepted MaxCalls requests and has run none of them.
InitCalls ==
  /\ hashSeed = 0
  /\ phase = "idle"
  /\ request = NoRequest
  /\ source = << >>
  /\ lens_posts = 0
  /\ response = NoResponse
  /\ pdf = NoExport
  /\ calls = [ c \in 1..MaxCalls |->
                 [ pc |-> "fetch", request |-> CallRequest(c), lens_posts |-> 0,
                   keywords |-> << >>, ref |-> 0, idx |-> 0, response |-> NoResponse ] ]
  /\ heap = << >>

\* source = fetch_live_patents(req.description): the call's one POST
Fetch(c) ==
  /\ calls[c].pc = "fetch"
  /\ \E live \in { fetch_live_patents(calls[c].request.description, calls[c].request.reply,
                                      hashSeed, calls[c].request.current_year) } :
       IF live = << >>
       THEN /\ calls' = [ calls EXCEPT ![c].pc = "load", ![c].lens_posts = 1 ]
            /\ heap' = heap
       ELSE /\ calls' = [ calls EXCEPT ![c].pc = "finish", ![c].lens_posts = 1,
                                      ![c].ref = Len(heap) + 1 ]
            /\ heap' = Append(heap, live)
  /\ UNCHANGED << hashSeed, phase, request, source, lens_posts, response, pdf >>

\* source = get_fallback_patents(); keywords = extract_keywords(req.description)
Load(c) ==
  /\ calls[c].pc = "load"
  /\ \E r \in { new_list(heap) } :
       /\ heap' = IF r \in DOMAIN heap THEN [ heap EXCEPT ![r] = get_fallback_patents ]
                  ELSE Append(heap, get_fallback_patents)
       /\ calls' = [ calls EXCEPT ![c].pc = "score", ![c].ref = r, ![c].idx = 1,
                                  ![c].keywords = extract_keywords(calls[c].request.description,
                                                                   hashSeed) ]
  /\ UNCHANGED << hashSeed, phase, request, source, lens_posts, response, pdf >>

\* one turn of  for p in source: p["relevance_score"] = calculate_relevance(p, keywords)
Rescore(c) ==
  /\ calls[c].pc = "score"
  /\ \E r \in { calls[c].ref }, i \in { calls[c].idx } :
       /\ heap' = [ heap EXCEPT ![r][i].relevance_score =
                                  calculate_relevance(heap[r][i], calls[c].keywords) ]
       /\ calls' = [ calls EXCEPT ![c].idx = i + 1,
                                  ![c].pc = IF i = Len(heap[r]) THEN "finish" ELSE "score" ]
  /\ UNCHANGED << hashSeed, phase, request, source, lens_posts, response, pdf >>

\* the rest of the handler, from the enrichment to the return
Respond(c) ==
  /\ calls[c].pc = "finish"
  /\ \E req \in { calls[c].request } :
     \E key_concepts \in { extract_keywords(req.description, hashSeed) } :
     \E enriched \in { enrich(heap[calls[c].ref]) } :
     \E filtered \in { apply_filters(enriched, req.filter, req.jurisdiction,
                                     req.min_year, req.min_relevance) } :
     \E pats \in { sort_patents(filtered, req.sort) } :
       calls' = [ calls EXCEPT ![c].pc = "done",
                               ![c].response = envelope(req, key_concepts, pats) ]
  /\ UNCHANGED << hashSeed, phase, request, source, lens_posts, response, pdf, heap >>

NextCalls ==
  \/ \E c \in 1..MaxCalls : Fetch(c)
  \/ \E c \in 1..MaxCalls : Load(c)
  \/ \E c \in 1..MaxCalls : Rescore(c)
  \/ \E c \in 1..MaxCalls : Respond(c)

SpecCalls == InitCalls /\ [][NextCalls]_vars

(* ------------------------------ claims ------------------------------- *)

Answered == phase = "answered"

\* rec passes the four filters of the request, the jurisdiction asked for
\* being compared as j
PassesFilters(rec, req, j) ==
  /\ (req.filter = "expired" => Contains(rec.status, "Expired"))
  /\ (req.filter = "active" => Contains(rec.status, "Active"))
  /\ (req.jurisdiction # "" => extract_jurisdiction(rec) = j)
  /\ (req.min_year > 0 => (rec.year # << >> /\ rec.year[1] >= req.min_year))
  /\ rec.relevance_score >= req.min_relevance

PassingCount(j) ==
  Cardinality({ i \in DOMAIN source : PassesFilters(source[i], request, j) })

\* C1 (as amended): total_patents_found and pagination.total equal the number
\* of candidate records that pass every active filter, the jurisdiction asked
\* for being stripped of surrounding whitespace and upper-cased before it is
\* compared; every limit and offset gives that same number.
C1_TotalIsFilteredCount ==
  Answered =>
    \E n \in { PassingCount(upper(strip(request.jurisdiction))) } :
      /\ response.total_patents_found = n
      /\ response.pagination.total = n

\* C1 as stated: the jurisdiction asked for is only upper-cased.
C1_AsStated ==
  Answered =>
    \E n \in { PassingCount(upper(request.jurisdiction)) } :
      /\ response.total_patents_found = n
      /\ response.pagination.total = n

C1_Witness ==
  /\ Answered
  /\ request.jurisdiction = " us"
  /\ request.filter = "active"
  /\ request.min_year > 0
  /\ request.min_relevance > 0
  /\ response.total_patents_found > 0
  /\ response.total_patents_found < Len(source)

\* C2: prev_offset is null if and only if offset = 0.
C2_PrevOffsetNullIffFirstPage ==
  Answered => ((response.pagination.prev_offset = << >>) <=> (request.offset = 0))

\* C3: next_offset is null if and only if offset + limit >= total and is
\* offset + limit otherwise; an offset at or beyond total gives an empty
\* patents list with next_offset null.
C3_NextOffset ==
  Answered =>
    /\ (response.pagination.next_offset = << >>)
         <=> (request.offset + request.limit >= response.pagination.total)
    /\ (response.pagination.next_offset # << >>
          => response.pagination.next_offset = << request.offset + request.limit >>)
    /\ (request.offset >= response.pagination.total
          => (response.patents = << >> /\ response.pagination.next_offset = << >>))

C3_Witness ==
  /\ Answered
  /\ response.pagination.total > 0
  /\ request.offset >= response.pagination.total
  /\ response.patents = << >>

\* the place of a returned record in the list before it was filtered and sorted
PosInSource(p) == CHOOSE i \in DOMAIN source : source[i].patent_number = p.patent_number

\* a comes before b rightly: its key sorts first, or the keys are equal and a
\* came first in the catalog
InOrder(a, b, sort) ==
  CASE sort = "relevance_desc" ->
         \/ a.relevance_score > b.relevance_score
         \/ (a.relevance_score = b.relevance_score /\ PosInSource(a) < PosInSource(b))
    [] sort = "relevance_asc" ->
         \/ a.relevance_score < b.relevance_score
         \/ (a.relevance_score = b.relevance_score /\ PosInSource(a) < PosInSource(b))
    [] sort = "title_asc" ->
         \E ta \in { lower(a.title) }, tb \in { lower(b.title) } :
           StrLess(ta, tb) \/ (ta = tb /\ PosInSource(a) < PosInSource(b))
    [] sort = "title_desc" ->
         \E ta \in { lower(a.title) }, tb \in { lower(b.title) } :
           StrLess(tb, ta) \/ (ta = tb /\ PosInSource(a) < PosInSource(b))
    [] OTHER -> TRUE

\* C4: the returned records are in the order of the requested key
\* (relevance_desc non-increasing, relevance_asc non-decreasing, title_asc and
\* title_desc by lower-cased title), and records of equal key keep the order
\* they had in the catalog.
C4_SortedAndStable ==
  Answered =>
    \A i, j \in DOMAIN response.patents :
      i < j => InOrder(response.patents[i], response.patents[j], request.sort)

C4_Witness ==
  /\ Answered
  /\ request.sort = "title_desc"
  /\ \E i, j \in DOMAIN response.patents :
       /\ i < j
       /\ response.patents[i].title # response.patents[j].title
       /\ lower(response.patents[i].title) = lower(response.patents[j].title)

\* C5: filter "expired" returns only records whose status contains "Expired",
\* "active" only records whose status contains "Active", and "all" removes
\* nothing: the result is the set the other three filters select.
C5_StatusFilter ==
  Answered =>
    /\ (request.filter = "expired"
          => \A i \in DOMAIN response.patents :
               Contains(response.patents[i].status, "Expired"))
    /\ (request.filter = "active"
          => \A i \in DOMAIN response.patents :
               Contains(response.patents[i].status, "Active"))
    /\ (request.filter = "all"
          => \E j \in { upper(strip(request.jurisdiction)) } :
               \E others \in { [ request EXCEPT !.filter = "pending" ] } :
                 /\ response.total_patents_found
                      = Cardinality({ i \in DOMAIN source : PassesFilters(source[i], others, j) })
                 /\ \A k \in DOMAIN response.patents :
                      PassesFilters(source[PosInSource(response.patents[k])], others, j))

C5_Witness ==
  /\ Answered
  /\ request.filter = "expired"
  /\ response.patents # << >>
  /\ \E i \in DOMAIN source : ~Contains(source[i].status, "Expired")

\* text without its commas
RECURSIVE Ungrouped(_)
Ungrouped(t) ==
  IF Len(t) = 0 THEN ""
  ELSE (IF Char(t, 1) = "," THEN "" ELSE Char(t, 1)) \o Ungrouped(SubSeq(t, 2, Len(t)))

\* t is a decimal numeral with a comma before every group of three digits
GroupedNumeral(t) ==
  /\ Len(t) > 0
  /\ \A k \in 1..Len(t) :
       IF (Len(t) - k) % 4 = 3 THEN Char(t, k) = "," ELSE Char(t, k) \in DigitChars
  /\ Char(t, 1) # ","
  /\ (Len(t) > 1 => Char(t, 1) # "0")

\* C6: estimated_savings is the currency sign followed by (the number of
\* records of the filtered set whose status contains "Expired") x 25000 with
\* thousands separators, whatever the limit and the offset.
C6_Savings ==
  Answered =>
    \E j \in { upper(strip(request.jurisdiction)) } :
      \E n \in { Cardinality({ i \in DOMAIN source :
                                 /\ PassesFilters(source[i], request, j)
                                 /\ Contains(source[i].status, "Expired") }) } :
        \E amount \in { SubSeq(response.estimated_savings, 2, Len(response.estimated_savings)) } :
          /\ Char(response.estimated_savings, 1) = "£"
          /\ GroupedNumeral(amount)
          /\ DigitsValue(Ungrouped(amount)) = n * 25000

C6_Witness ==
  /\ Answered
  /\ response.estimated_savings = "£225,000"
  /\ Len(response.patents) < response.total_patents_found
  /\ request.offset > 0

\* the provider's reply gives live records to answer from
ReplyUsable(r) ==
  /\ ~r.raises
  /\ r.status_code = 200
  /\ r.recs_is_list
  /\ r.recs # << >>
  /\ \A i \in DOMAIN r.recs : r.recs[i].well_formed

\* score is (the number of keywords kws that occur in lower-cased text) /
\* max(number of keywords, 1), and lies in [0, 1]
ScoreIs(score, text, kws) ==
  \E t \in { lower(text) } :
    /\ score >= 0
    /\ score <= ScoreUnit
    /\ score * (IF Len(kws) > 1 THEN Len(kws) ELSE 1)
         = ScoreUnit * Cardinality({ k \in DOMAIN kws : Contains(t, kws[k]) })

\* the text the i-th candidate was scored on: the record's own title and
\* abstract on the fallback path, the hit's stripped title and abstract on
\* the live path
ScoredText(i) ==
  IF ReplyUsable(request.reply)
  THEN strip(request.reply.recs[i].title) \o " " \o strip(request.reply.recs[i].abstract)
  ELSE source[i].title \o " " \o source[i].abstract

\* C7 (as amended): every candidate's relevance_score lies in [0, 1] and is
\* (keywords occurring in the lower-cased text it was scored on) /
\* max(number of keywords, 1); that text is the title and abstract of a
\* fallback record, and for a live record the provider's stripped title and
\* whole abstract, before the placeholder title or abstract and the cut to
\* 900 characters.  Every returned record carries its candidate's score.
C7_ScoreOverScoredText ==
  Answered =>
    /\ \A i \in DOMAIN source :
         ScoreIs(source[i].relevance_score, ScoredText(i), response.key_concepts)
    /\ \A k \in DOMAIN response.patents :
         response.patents[k].relevance_score
           = source[PosInSource(response.patents[k])].relevance_score

\* C7 as stated: the score of every returned record is the ratio over the
\* title and abstract the record carries.
C7_AsStated ==
  Answered =>
    \A k \in DOMAIN response.patents :
      ScoreIs(response.patents[k].relevance_score,
              response.patents[k].title \o " " \o response.patents[k].abstract,
              response.key_concepts)

C7_Witness ==
  /\ Answered
  /\ ReplyUsable(request.reply)
  /\ \E k \in DOMAIN response.key_concepts : response.key_concepts[k] = "patent"
  /\ \E i \in DOMAIN response.patents :
       /\ response.patents[i].title = "Untitled patent"
       /\ response.patents[i].relevance_score = 0
  /\ \E i \in DOMAIN response.patents :
       /\ response.patents[i].relevance_score > 0
       /\ response.patents[i].relevance_score < ScoreUnit

\* C8: when the one search attempt raises, answers with a status other than
\* 200 or gives no or malformed results, the handler has sent exactly one
\* POST and answers from the built-in list of at least 10 records, each with
\* its relevance_score computed from the request's description.
C8_FallbackRescored ==
  (Answered /\ ~ReplyUsable(request.reply)) =>
    /\ lens_posts = 1
    /\ Len(source) >= 10
    /\ Len(source) = Len(get_fallback_patents)
    /\ \A i \in DOMAIN source :
         /\ [ source[i] EXCEPT !.relevance_score = 0 ]
              = [ get_fallback_patents[i] EXCEPT !.relevance_score = 0 ]
         /\ ScoreIs(source[i].relevance_score,
                    source[i].title \o " " \o source[i].abstract, response.key_concepts)
    /\ \A k \in DOMAIN response.patents :
         response.patents[k].relevance_score
           = source[PosInSource(response.patents[k])].relevance_score

C8_Witness ==
  /\ Answered
  /\ request.reply.status_code = 503
  /\ Len(response.patents) >= 10
  /\ \A i \in DOMAIN source :
       source[i].relevance_score # get_fallback_patents[i].relevance_score

EnvelopeKeys ==
  { "project_description", "key_concepts", "total_patents_found", "estimated_savings",
    "patents", "pagination", "applied_filters" }

\* the response is a result envelope that agrees with the request
ValidEnvelope ==
  /\ DOMAIN response = EnvelopeKeys
  /\ response.project_description = request.description
  /\ response.total_patents_found = response.pagination.total
  /\ Len(response.patents) <= request.limit
  /\ Len(response.patents) <= response.total_patents_found
  /\ Char(response.estimated_savings, 1) = "£"
  /\ response.pagination.limit = request.limit
  /\ response.pagination.offset = request.offset
  /\ response.applied_filters.status = request.filter

\* C9 (as amended): for an empty description the keyword extractor returns
\* the empty list, every relevance_score is 0, and analyze still returns a
\* valid result envelope.
C9_EmptyDescription ==
  (Answered /\ request.description = "") =>
    /\ response.key_concepts = << >>
    /\ \A i \in DOMAIN response.patents : response.patents[i].relevance_score = 0
    /\ ValidEnvelope

\* C9 as stated: for an empty description the keyword extractor returns a
\* non-empty default keyword set and analyze returns a valid result envelope.
C9_AsStated ==
  (Answered /\ request.description = "") =>
    /\ response.key_concepts # << >>
    /\ ValidEnvelope

C9_Witness ==
  /\ Answered
  /\ request.description = ""
  /\ response.patents # << >>

AllLowerCase(w) == Len(w) > 0 /\ \A i \in 1..Len(w) : Char(w, i) \in LowerChars

\* C10 (as amended): the keyword extractor returns at most 10 terms, each of
\* them lowercase.
C10_AtMostTenLowercase ==
  Answered =>
    /\ Len(response.key_concepts) <= 10
    /\ \A k \in DOMAIN response.key_concepts : AllLowerCase(response.key_concepts[k])

\* C10 as stated: at most 5 terms, each of them lowercase.
C10_AsStated ==
  Answered =>
    /\ Len(response.key_concepts) <= 5
    /\ \A k \in DOMAIN response.key_concepts : AllLowerCase(response.key_concepts[k])

C10_Witness ==
  /\ Answered
  /\ Len(response.key_concepts) = 10
  /\ \E i \in 1..Len(request.description) : Char(request.description, i) \in UpperChars

\* a goes before b in the filtered-and-sorted list: by the requested key,
\* then by catalog order; an unknown sort value leaves the catalog order
GoesBefore(a, b, sort) ==
  IF sort \in { "relevance_desc", "relevance_asc", "title_asc", "title_desc" }
  THEN InOrder(a, b, sort)
  ELSE PosInSource(a) < PosInSource(b)

\* the number of records of the filtered set that go before p
RankInFiltered(p, j) ==
  Cardinality({ i \in DOMAIN source :
                  /\ PassesFilters(source[i], request, j)
                  /\ GoesBefore(source[i], p, request.sort) })

MinOf(a, b) == IF a < b THEN a ELSE b
MaxOf(a, b) == IF a > b THEN a ELSE b

\* C13: the returned patents list is the contiguous window of positions
\* offset .. offset+limit-1 of the filtered-and-sorted list, in the same
\* order: it has min(limit, max(total - offset, 0)) records, never more than
\* limit, its k-th record is the record that offset + k - 1 records of the
\* filtered set go before, and every record in it is a record of the filtered
\* set (returned without its date and year).
C13_ContiguousWindow ==
  Answered =>
    \E j \in { upper(strip(request.jurisdiction)) } :
      /\ Len(response.patents)
           = MinOf(request.limit, MaxOf(response.total_patents_found - request.offset, 0))
      /\ Len(response.patents) <= request.limit
      /\ \A k \in DOMAIN response.patents :
           \E i \in DOMAIN source :
             /\ source[i].patent_number = response.patents[k].patent_number
             /\ PassesFilters(source[i], request, j)
             /\ DOMAIN response.patents[k] = DOMAIN source[i] \ { "patent_date", "year" }
             /\ \A f \in DOMAIN response.patents[k] : response.patents[k][f] = source[i][f]
             /\ RankInFiltered(source[i], j) = request.offset + k - 1

C13_Witness ==
  /\ Answered
  /\ request.offset > 0
  /\ response.patents # << >>
  /\ Len(response.patents) < request.limit
  /\ response.total_patents_found < Len(source)

\* C11: every record analyze processes has the status the 20-year rule gives
\* its year: "Expired - Free to Use" exactly when the year is present and
\* (current year - year) >= 20, and "Active" otherwise; no record is labelled
\* Expired while younger than 20 years.
C11_StatusFollowsTwentyYearRule ==
  Answered =>
    \A i \in DOMAIN source :
      source[i].status
        = IF source[i].year # << >> /\ request.current_year - source[i].year[1] >= 20
          THEN "Expired - Free to Use"
          ELSE "Active"

Exported == pdf.phase = "sent"

NoticeText == "No patents found for this query."

\* the Heading3 paragraphs of a story, in order: one opens each detail block
DetailHeads(blocks) ==
  SelectSeq(blocks, LAMBDA b : b.flowable = "Paragraph" /\ b.style = "Heading3")

\* row is the summary row of record p: its number, its title cut to at most
\* 70 characters, its status, and its relevance as the nearest whole percent
SummaryRowOf(row, p) ==
  /\ Len(row) = 4
  /\ row[1] = p.patent_number
  /\ Len(row[2]) = MinOf(Len(p.title), 70)
  /\ row[2] = SubSeq(p.title, 1, Len(row[2]))
  /\ row[3] = p.status
  /\ \E pct \in 0..100 :
       /\ row[4] = int_to_str(pct) \o "%"
       /\ 2 * (100 * p.relevance_score - pct * ScoreUnit) <= ScoreUnit
       /\ 2 * (pct * ScoreUnit - 100 * p.relevance_score) <= ScoreUnit

\* the part of the story after the five leading blocks is the one the
\* patents list asks for
ResultsPartOf(results, patents) ==
  IF patents = << >>
  THEN results = << [ flowable |-> "Paragraph", text |-> NoticeText, style |-> "BodyText" ] >>
  ELSE /\ \A i \in DOMAIN results :
            results[i].flowable = "Paragraph" => results[i].text # NoticeText
       /\ { i \in DOMAIN results : results[i].flowable = "Table" } = { 2 }
       /\ Len(results[2].data) = Len(patents) + 1
       /\ \A k \in DOMAIN patents : SummaryRowOf(results[2].data[k + 1], patents[k])
       /\ \E heads \in { DetailHeads(results) } :
            /\ Len(heads) = Len(patents)
            /\ \A k \in DOMAIN patents :
                 heads[k].text = "<b>" \o patents[k].patent_number \o "</b>"
       /\ \A i \in DOMAIN results :
            (results[i].flowable = "Paragraph" /\ results[i].style = "Heading3")
              => /\ i > 2
                 /\ i + 1 \in DOMAIN results
                 /\ results[i + 1].flowable = "Paragraph"
                 /\ \E k \in DOMAIN patents :
                      /\ results[i].text = "<b>" \o patents[k].patent_number \o "</b>"
                      /\ results[i + 1].text = "<b>Title:</b> " \o patents[k].title

\* C12: build_pdf emits its blocks in a fixed order - title, project
\* description, key concepts (comma-joined), status-filter label, estimated
\* savings, then the results part; for an empty patents list the results part
\* is exactly one "No patents found" notice, with no table and no record
\* block; for a non-empty list it is one summary row per record (title cut to
\* at most 70 characters, relevance as the rounded percentage) and one detail
\* block per record, in input order, and no notice.
C12_StoryOrder ==
  Exported =>
    \E story \in { pdf.story } :
      /\ Len(story) >= 15
      /\ [ i \in 1..14 |-> story[i].flowable ]
           = << "Paragraph", "Spacer", "Paragraph", "Paragraph", "Spacer",
                "Paragraph", "Paragraph", "Spacer", "Paragraph", "Paragraph", "Spacer",
                "Paragraph", "Paragraph", "Spacer" >>
      /\ story[1].text = "Patent Intelligence Report"
      /\ story[3].text = "<b>Project Description</b>"
      /\ story[4].text = (IF pdf.payload.project_description = "" THEN "-"
                          ELSE pdf.payload.project_description)
      /\ story[6].text = "<b>Key Concepts</b>"
      /\ story[7].text = join(pdf.payload.key_concepts, ", ")
      /\ story[9].text = "<b>Patent Status Filter</b>"
      /\ lower(story[10].text)
           = lower(IF pdf.payload.filter = "" THEN "all" ELSE pdf.payload.filter)
      /\ story[12].text = "<b>Estimated R&D Savings</b>"
      /\ story[13].text = (IF pdf.payload.estimated_savings = "" THEN "£0"
                           ELSE pdf.payload.estimated_savings)
      /\ ResultsPartOf(SubSeq(story, 15, Len(story)), pdf.payload.patents)

C12_Witness ==
  /\ Exported
  /\ Len(pdf.payload.patents) = 3
  /\ \E k \in DOMAIN pdf.payload.patents : Len(pdf.payload.patents[k].title) > 70
  /\ \E i \in DOMAIN pdf.story :
       /\ pdf.story[i].flowable = "Table"
       /\ pdf.story[i].data[2][4] = "38%"
       /\ pdf.story[i].data[3][4] = "12%"

\* the c-th call answered as analyze answers its request when it runs alone
AnsweredAsAlone(c) ==
  \E req \in { calls[c].request } :
  \E src \in { load_source(req.description, req.reply, hashSeed, req.current_year) } :
  \E key_concepts \in { extract_keywords(req.description, hashSeed) } :
  \E filtered \in { apply_filters(enrich(src), req.filter, req.jurisdiction,
                                  req.min_year, req.min_relevance) } :
  \E pats \in { sort_patents(filtered, req.sort) } :
    calls[c].response = envelope(req, key_concepts, pats)

\* C14: under every interleaving of the calls' steps on the fallback path,
\* each call rewrites the scores of a list no other call holds, and each
\* response (scores, order, total, savings) is the one its own request gets
\* when it runs alone.
C14_NoInterference ==
  /\ \A c, d \in DOMAIN calls :
       (c # d /\ calls[c].ref # 0 /\ calls[d].ref # 0) => calls[c].ref # calls[d].ref
  /\ \A c \in DOMAIN calls :
       calls[c].pc = "done" => (calls[c].lens_posts = 1 /\ AnsweredAsAlone(c))

\* the second call built its list first and is still to answer from it; the
\* first call built its list later, rewrote it and has answered
C14_Witness ==
  /\ Len(calls) >= 2
  /\ calls[1].pc = "done"
  /\ calls[2].pc = "finish"
  /\ calls[2].ref < calls[1].ref
  /\ calls[1].request.description # calls[2].request.description
  /\ \E i \in DOMAIN heap[calls[1].ref] :
       heap[calls[1].ref][i].relevance_score # heap[calls[2].ref][i].relevance_score
====
